---- MODULE Spec2Model ----
(***************************************************************************)
(* Verification model of listeningpy: the convolution engine               *)
(* (listeningpy/processing.py), the level normalizers and the Zwicker      *)
(* loudness convergence loop (listeningpy/normalization.py).               *)
(*                                                                         *)
(* Representation of numbers.                                              *)
(*  - Audio samples of the convolution engine are fixed-point integers.    *)
(*    An impulse-response sample x stands for x / IRUnit, a stimulus       *)
(*    sample for x itself, a convolution result for x / IRUnit.                *)
(*  - A buffer is a sequence of channels, each channel a sequence of       *)
(*    samples (the transpose of the numpy (frames, channels) array).       *)
(*  - Gains and levels of the loudness loop are kept in the log domain, in *)
(*    units of 1/PhonUnit dB (or phon): the ratio r is held as             *)
(*    20*log10(r), so that r *= 10**(d/20) is an addition of d.            *)
(***************************************************************************)
EXTENDS Integers, Sequences, FiniteSets, TLC

\* ------------------------------------------------------------------ bounds
MaxFrames == 3      \* longest generated impulse response / stimulus, in frames
MaxCalls  == 2      \* successive convolution calls made by the caller
SafetyBound == 100  \* iteration bound the specification asks of the loop
MaxIter == SafetyBound + 2     \* iterations explored of a loop that never ends
MaxFiles == 4       \* most wav files in the folder read by abx_combination
MaxRows == 2        \* most combinations (trials) of an ABX test
MaxClicks == 2      \* most clicks on one play button within one trial
MaxSentences == 3   \* most sentences in one set of the adaptive test
MaxIrs == 3         \* most rows of the impulse-response table

\* ------------------------------------------------------------ fixed point
WinUnit  == 8                       \* taper window values are multiples of 1/8
RECURSIVE Pow(_, _)
Pow(b, e) == IF e = 0 THEN 1 ELSE b * Pow(b, e - 1)

\* an IR sample stays an exact multiple of 1/IRUnit through MaxCalls tapers
IRUnit   == 4 * Pow(WinUnit, MaxCalls)

\* ----------------------------------------------------------------- helpers
Abs(x) == IF x < 0 THEN -x ELSE x

Max2(a, b) == IF a >= b THEN a ELSE b

Min2(a, b) == IF a <= b THEN a ELSE b

RECURSIVE SumSeq(_)
SumSeq(s) == IF s = <<>> THEN 0 ELSE Head(s) + SumSeq(Tail(s))

RECURSIVE MaxSeq(_)
MaxSeq(s) == IF Len(s) = 1 THEN s[1] ELSE Max2(Head(s), MaxSeq(Tail(s)))

AbsSeq(s) == [i \in 1..Len(s) |-> Abs(s[i])]

Frames(buf) == Len(buf[1])

Channels(buf) == Len(buf)

\* numpy: abs(x).max() over the whole 2-D array
AbsMax(buf) == MaxSeq([c \in 1..Len(buf) |-> MaxSeq(AbsSeq(buf[c]))])

\* numpy: abs(x).sum() over the whole 2-D array
AbsSum(buf) == SumSeq([c \in 1..Len(buf) |-> SumSeq(AbsSeq(buf[c]))])

\* numpy: (x**2).sum() over the whole 2-D array
SqSum(buf) == SumSeq([c \in 1..Len(buf) |-> SumSeq([i \in 1..Len(buf[c]) |-> buf[c][i] * buf[c][i]])])

\* all sequences over S of length 1..n
SeqsUpTo(S, n) == UNION {[1..k -> S] : k \in 1..n}

\* ------------------------------------------------- processing.py: match_fs
\* scipy.signal.resample(x, num) is an external FFT resampler.  Only its
\* shape contract is modelled exactly (num frames per channel, channel count
\* kept); the sample values are stood in for by sample-and-hold.
\* mutant: only the first channel comes back
resample_first_channel(buf, num) ==
    <<[i \in 1..num |-> buf[1][(((i - 1) * Len(buf[1])) \div num) + 1]]>>

resample(buf, num) ==
    [c \in 1..Len(buf) |->
        [i \in 1..num |-> buf[c][(((i - 1) * Len(buf[c])) \div num) + 1]]]

\* mutant: only a negative length is rejected
resample_raises_negative(num) == num < 0

\* resample ends in irfft(Y, num), which rejects num < 1 with ValueError
\* (a negative array shape is rejected the same way)
resample_raises(num) == num <= 0

\* resample has no shortcut for num = len(x): the samples always pass through
\* rfft and irfft in floating point, so each can come back off by rounding.
\* The deviation is kept apart from the ideal values, in units of the last
\* bit: RoundOffs(num) are the deviations of one sample the model lets the
\* round trip produce, round_off(buf, e) places e on the last frame of the
\* first channel.
RoundOffs(num) == IF num >= 2 THEN {-1, 0, 1} ELSE {0}

round_off(buf, e) ==
    [c \in 1..Len(buf) |->
        [i \in 1..Len(buf[c]) |-> IF c = 1 /\ i = Len(buf[c]) THEN e ELSE 0]]

\* int(x) of the quotient p/q, q > 0: truncation towards zero
int_div(p, q) == IF p >= 0 THEN p \div q ELSE -((-p) \div q)

\* mutant: the length rounded to the nearest integer (halves to even)
new_len_round(in1, fs2, fs1) ==
    LET p == Frames(in1) * fs2
        lo == p \div fs1
        twice == 2 * (p - lo * fs1)
    IN  IF twice > fs1 \/ (twice = fs1 /\ lo % 2 = 1) THEN lo + 1 ELSE lo

\* new_len = int(in1.shape[0]*fs_in2/fs_in1)
new_len(in1, fs2, fs1) == int_div(Frames(in1) * fs2, fs1)

\* mutant: the rate of the input handed back
match_fs_old_rate(in1, fs2, fs1) ==
    [audio |-> resample(in1, new_len(in1, fs2, fs1)), fs |-> fs1]

match_fs(in1, fs2, fs1) ==
    [audio |-> resample(in1, new_len(in1, fs2, fs1)), fs |-> fs2]

NoBuffer == <<>>

\* a direct call of match_fs as its caller sees it: the exception of the
\* resampler, or the new array (ideal values and rounding) and the rate
match_fs_call(in1, fs2, fs1, e) ==
    IF resample_raises(new_len(in1, fs2, fs1))
    THEN [status |-> "ValueError", audio |-> NoBuffer, ulp |-> NoBuffer, fs |-> 0]
    ELSE [status |-> "ok", audio |-> match_fs(in1, fs2, fs1).audio,
          ulp |-> round_off(match_fs(in1, fs2, fs1).audio, e),
          fs |-> match_fs(in1, fs2, fs1).fs]

\* ------------------------------------------- processing.py: fade-out taper
\* size = int(fs_in2/12.5)
fade_size(fs2) == (2 * fs2) \div 25

\* signal.windows.general_cosine(2*size, HFT90D)[-size:] / max, in units of
\* 1/WinUnit, tabulated for the window lengths the model's rates give:
\*   size 3: [1, -0.1118, 0]   size 4: [1, -0.0063, -0.0411, 0]
\* (rounded to the nearest 1/8).
fade_out_win(size) ==
    CASE size = 3 -> <<8, -1, 0>>
      [] size = 4 -> <<8, 0, 0, 0>>

\* i[-size:] *= fade_out_win   for one channel i with Len(i) >= size
taper_channel(ch, size) ==
    [k \in 1..Len(ch) |->
        IF k > Len(ch) - size
        THEN (ch[k] * fade_out_win(size)[k - (Len(ch) - size)]) \div WinUnit
        ELSE ch[k]]

\* for i in in1.T: i[-size:] *= fade_out_win
taper(buf, size) == [c \in 1..Len(buf) |-> taper_channel(buf[c], size)]

\* i[-size:] has min(size, frames) elements; the in-place product with a
\* window of size elements raises ValueError unless the two lengths agree
taper_raises(buf, size) == Frames(buf) < size

\* ------------------------------------------ processing.py: the convolution
\* one output sample of the full linear convolution of channels a and b
\* mutant: correlation instead of convolution (kernel not reversed)
conv_sample_correlate(a, b, n) ==
    SumSeq([k \in 1..Len(b) |->
        IF n - k + 1 >= 1 /\ n - k + 1 <= Len(a)
        THEN b[Len(b) - k + 1] * a[n - k + 1] ELSE 0])

conv_sample(a, b, n) ==
    SumSeq([k \in 1..Len(b) |->
        IF n - k + 1 >= 1 /\ n - k + 1 <= Len(a) THEN b[k] * a[n - k + 1] ELSE 0])

\* mutant: mode='same', the result cut to the length of the first operand
conv1d_same(a, b) == [n \in 1..Len(a) |-> conv_sample(a, b, n)]

conv1d(a, b) == [n \in 1..(Len(a) + Len(b) - 1) |-> conv_sample(a, b, n)]

add_seq(x, y) == [i \in 1..Len(x) |-> x[i] + y[i]]

RECURSIVE sum_rows(_, _)
sum_rows(rows, zero) ==
    IF rows = <<>> THEN zero ELSE add_seq(Head(rows), sum_rows(Tail(rows), zero))

\* signal.oaconvolve(x, y) on 2-D arrays (channels, frames) convolves along
\* both axes: row r of the result sums conv1d(x[i], y[j]) over i + j = r + 1
oaconvolve(x, y) ==
    [r \in 1..(Len(x) + Len(y) - 1) |->
        LET lo == Max2(1, r + 1 - Len(y))
            hi == Min2(Len(x), r)
        IN  sum_rows(
                [j \in 1..(hi - lo + 1) |-> conv1d(x[lo + j - 1], y[r + 1 - (lo + j - 1)])],
                [n \in 1..(Frames(x) + Frames(y) - 1) |-> 0])]

\* mutant: the row selection left out
all_rows(a) == a

\* a[[0,-1]]: the first and the last row of a 2-D array, always two rows
first_last(a) == <<a[1], a[Len(a)]>>

\* audio = signal.oaconvolve(in2.T, in1.T)[[0,-1]]; audio = audio.T
convolve(in1, in2) == first_last(oaconvolve(in2, in1))

\* ------------------------------------------------ normalization.py: gains
\* A normalization factor 10**(target/20) / measurement is irrational in
\* general, so a scaled buffer is held as the pair (samples, factor) and the
\* factor as the triple (strategy, target in dB, measurement) it is computed
\* from: two scaled buffers are equal iff they agree in all of these.
One == [kind |-> "one", db |-> 0, meas |-> <<1, 1>>]

Factor(kind, db, meas) == [kind |-> kind, db |-> db, meas |-> meas]

Scaled(buf, factor) == [samples |-> buf, factor |-> factor]

NoRef == <<>>       \* Python None for a buffer argument

\* mutant: the largest sample is measured, not the largest magnitude
peak_normalize_signed(audio, fs, peak, reference) ==
    LET ref == IF reference = NoRef THEN audio ELSE reference
    IN  [audio |-> Scaled(audio, Factor("peak", peak,
                          <<MaxSeq([c \in 1..Len(ref) |-> MaxSeq(ref[c])]), 1>>)),
         fs |-> fs]

\* mutant: the measured reference is what gets scaled and returned
peak_normalize_reference(audio, fs, peak, reference) ==
    LET ref == IF reference = NoRef THEN audio ELSE reference
    IN  [audio |-> Scaled(ref, Factor("peak", peak, <<AbsMax(ref), 1>>)), fs |-> fs]

\* peak_normalize: factor = 10**(peak/20) / abs(reference).max()
peak_normalize(audio, fs, peak, reference) ==
    LET ref == IF reference = NoRef THEN audio ELSE reference
    IN  [audio |-> Scaled(audio, Factor("peak", peak, <<AbsMax(ref), 1>>)), fs |-> fs]

\* rms_normalize: factor = 10**(rms/20) / sqrt(mean(reference**2))
rms_normalize(audio, fs, rms, reference) ==
    LET ref == IF reference = NoRef THEN audio ELSE reference
    IN  [audio |-> Scaled(audio, Factor("rms", rms, <<SqSum(ref), Channels(ref) * Frames(ref)>>)),
         fs |-> fs]

\* lufs_normalize: factor = 10**((lufs - loudness)/20), loudness measured on
\* the reference by the external meter pyln.Meter(fs).integrated_loudness; the
\* meter is stood in for by the quantities it integrates (energy, length, rate)
lufs_normalize(audio, fs, lufs, reference) ==
    LET ref == IF reference = NoRef THEN audio ELSE reference
    IN  [audio |-> Scaled(audio, Factor("lufs", lufs, <<SqSum(ref), Frames(ref), fs>>)),
         fs |-> fs]

\* ir_sum_normalize: factor = 10**(ir_sum/20) / abs(ir).sum()
ir_sum_normalize(audio, ir, fs, ir_sum) ==
    [audio |-> Scaled(audio, Factor("ir_sum", ir_sum, <<AbsSum(ir), 1>>)), fs |-> fs]

\* ------------------------------------------- processing.py: the prefilter
FILTERS == {"hp", "lp"}

\* signal.sosfilt(signal.butter(12, fc, kind, fs=fs, output='sos'), audio,
\* axis=0) is an external IIR filter: it keeps the shape and changes the
\* samples.  Stood in for by a first difference (hp) / two-point sum (lp).
sosfilt(kind, audio) ==
    [c \in 1..Len(audio) |->
        [i \in 1..Len(audio[c]) |->
            LET before == IF i = 1 THEN 0 ELSE audio[c][i - 1]
            IN  IF kind = "hp" THEN audio[c][i] - before ELSE audio[c][i] + before]]

\* -------------------------------------- processing.py: convolution, whole
\* The closing audio_stats_logging call (line 191) only measures and logs;
\* the external loudness meter it calls is outside the model.
NoAudio == Scaled(<<>>, One)

Raised(exc, in1) == [status |-> exc, audio |-> NoAudio, fs |-> 0, in1 |-> in1]

\* mutant: the final else branch raises instead of logging
normalize_result_strict(audio, ir, fs, norm, target, prefilter, in1) ==
    LET bound == prefilter = "" \/ prefilter \in FILTERS
        audio_prefiltered == IF prefilter = "" THEN audio ELSE sosfilt(prefilter, audio)
        uses_ref == norm \in {"peak", "rms", "lufs"}
        out == CASE norm = "peak"   -> peak_normalize(audio, fs, target, audio_prefiltered).audio
                 [] norm = "ir_sum" -> ir_sum_normalize(audio, ir, fs, target).audio
                 [] norm = "rms"    -> rms_normalize(audio, fs, target, audio_prefiltered).audio
                 [] norm = "lufs"   -> lufs_normalize(audio, fs, target, audio_prefiltered).audio
                 [] OTHER           -> Scaled(audio, One)
    IN  IF (uses_ref /\ ~bound) \/ norm \notin {"peak", "ir_sum", "rms", "lufs", "None"}
        THEN Raised("ValueError", in1)
        ELSE [status |-> "ok", audio |-> out, fs |-> fs, in1 |-> in1]

\* mutant: the rms branch dispatches to the peak strategy
normalize_result_swapped(audio, ir, fs, norm, target, prefilter, in1) ==
    LET bound == prefilter = "" \/ prefilter \in FILTERS
        audio_prefiltered == IF prefilter = "" THEN audio ELSE sosfilt(prefilter, audio)
        uses_ref == norm \in {"peak", "rms", "lufs"}
        out == CASE norm = "peak"   -> peak_normalize(audio, fs, target, audio_prefiltered).audio
                 [] norm = "ir_sum" -> ir_sum_normalize(audio, ir, fs, target).audio
                 [] norm = "rms"    -> peak_normalize(audio, fs, target, audio_prefiltered).audio
                 [] norm = "lufs"   -> lufs_normalize(audio, fs, target, audio_prefiltered).audio
                 [] OTHER           -> Scaled(audio, One)
    IN  IF uses_ref /\ ~bound
        THEN Raised("UnboundLocalError", in1)
        ELSE [status |-> "ok", audio |-> out, fs |-> fs, in1 |-> in1]

\* lines 141-192: prefilter, normalization, return; ir is the (resampled,
\* tapered) impulse response, in1 the caller's array after the call
normalize_result(audio, ir, fs, norm, target, prefilter, in1) ==
    LET bound == prefilter = "" \/ prefilter \in FILTERS
        audio_prefiltered == IF prefilter = "" THEN audio ELSE sosfilt(prefilter, audio)
        uses_ref == norm \in {"peak", "rms", "lufs"}
        out == CASE norm = "peak"   -> peak_normalize(audio, fs, target, audio_prefiltered).audio
                 [] norm = "ir_sum" -> ir_sum_normalize(audio, ir, fs, target).audio
                 [] norm = "rms"    -> rms_normalize(audio, fs, target, audio_prefiltered).audio
                 [] norm = "lufs"   -> lufs_normalize(audio, fs, target, audio_prefiltered).audio
                 [] OTHER           -> Scaled(audio, One)
    IN  IF uses_ref /\ ~bound
        THEN Raised("UnboundLocalError", in1)
        ELSE [status |-> "ok", audio |-> out, fs |-> fs, in1 |-> in1]

\* lines 118-139, then normalize_result.  The result names the outcome, the
\* returned (audio, fs) and the contents of the caller's in1 array afterwards.
convolution(in1, fs1, in2, fs2, fade, norm, target, prefilter) ==
    LET resampled == fs1 # fs2
        ir0   == IF resampled THEN match_fs(in1, fs2, fs1).audio ELSE in1
        fs    == IF resampled THEN match_fs(in1, fs2, fs1).fs ELSE fs1
        size  == fade_size(fs2)
    IN  IF Frames(ir0) = 0
        THEN Raised("ValueError", in1)          \* abs(in1).max() of an empty array
        ELSE IF fade /\ taper_raises(ir0, size)
        THEN Raised("ValueError", in1)          \* operands could not be broadcast
        ELSE LET ir     == IF fade THEN taper(ir0, size) ELSE ir0
                 \* the taper writes through views of in1: without resampling
                 \* in1 is the caller's own array
                 after  == IF resampled THEN in1 ELSE ir
             IN  normalize_result(convolve(ir, in2), ir, fs, norm, target, prefilter, after)

\* ----------------------------------------------------- convolution: inputs
IRVals == {IRUnit, IRUnit \div 2}            \* 1.0 and 0.5

StimVals == {1, -1}

ScenarioIR == <<IRUnit, IRUnit \div 2, IRUnit \div 4>>     \* [1.0, 0.5, 0.25]

ScenarioStim == <<1, 0, -1>>                               \* [1.0, 0.0, -1.0]

Negated(ch) == [i \in 1..Len(ch) |-> -ch[i]]

\* impulse responses as sf.read(always_2d=True) delivers them: mono, stereo
\* and three-channel arrays
IRs ==
    {<<c>> : c \in SeqsUpTo(IRVals, MaxFrames) \cup {ScenarioIR}}
    \cup {<<ScenarioIR, Negated(ScenarioIR)>>,
          <<ScenarioIR, Negated(ScenarioIR), <<IRUnit, IRUnit, IRUnit>>>>}

Stimuli ==
    {<<c>> : c \in SeqsUpTo(StimVals, MaxFrames) \cup {ScenarioStim}}
    \cup {<<ScenarioStim, <<1, 1, 1>>>>}

\* (fs_in1, fs_in2)
RatePairs == {<<38, 38>>, <<48000, 48000>>, <<38, 50>>, <<50, 38>>}

NormModes == {"peak", "ir_sum", "rms", "lufs", "None", "zwicker"}

KnownModes == {"peak", "ir_sum", "rms", "lufs", "None"}

Prefilters == {"", "hp", "lp", "bp"}

Targets == {-6}

\* the option combinations the caller uses
Options ==
    {o \in [fade_out : BOOLEAN, normalization : NormModes,
            normalization_target : Targets, normalization_prefilter : Prefilters] :
        o.fade_out => o.normalization_prefilter = ""}

\* ------------------------------------- normalization.py: the loudness loop
\* Levels, gains and loudness are integers in units of 1/PhonUnit dB (phon).
\* A sample is [sgn, db]: sign and level 20*log10(|x|) of its magnitude; a
\* zero sample has sgn 0.  A calibration buffer is one channel of samples.
PhonUnit == 10240

\* mutant: a tolerance of 1 phon
Tolerance_loose == PhonUnit

Tolerance == PhonUnit \div 10        \* while abs(loud_diff) > 0.1

Sample(sgn, db) == [sgn |-> sgn, db |-> db]

\* x * r for a buffer x and a positive ratio r held as 20*log10(r)
scale(buf, ratio_db) ==
    [i \in 1..Len(buf) |->
        IF buf[i].sgn = 0 THEN buf[i] ELSE Sample(buf[i].sgn, buf[i].db + ratio_db)]

\* 20*log10(abs(x).max()) of a buffer with a nonzero sample
peak_db(buf) ==
    LET nz == {i \in 1..Len(buf) : buf[i].sgn # 0}
    IN  CHOOSE m \in {buf[i].db : i \in nz} : \A i \in nz : buf[i].db <= m

\* 20*log10(p0), p0 = 2e-5 Pa: -93.98 dB, held as -94 dB
P0Db == -94 * PhonUnit

\* fs_to_pressure: audio * (p0 * 10 ** (dbfs_db/20))
fs_to_pressure(audio, dbfs_db) == scale(audio, P0Db + dbfs_db)

\* eq_loudness_lvl: 40 + 10*log2(mean(N)) with N the time-varying loudness
\* that the external model mosqito.loudness_zwtv returns for the pressure
\* signal.  The external model is an oracle o = [num, den, c]: its loudness
\* level is c + (num/den) * L, L the peak sound pressure level in dB re p0,
\* i.e. k*log10(ratio) + const with k = 20*num/den.
spl(audio_pressure) == peak_db(audio_pressure) - P0Db

eq_loudness_lvl(o, audio_pressure) == o.c + (o.num * spl(audio_pressure)) \div o.den

\* mutant: 10 ** (loud_diff/10), the power instead of the amplitude ratio
ratio_update_power(ratio_db, diff) == ratio_db + 2 * diff

\* line 224: ratio_loud *= 10 ** ((loud_diff)/20)
ratio_update(ratio_db, diff) == ratio_db + diff

\* mutant: full scale itself counted as clipping
clips_at_full_scale(buf) == peak_db(buf) >= 0

\* line 234: abs(audio).max() > 1
clips(buf) == peak_db(buf) > 0

\* mutant: the pressure-domain copy scaled and handed back
apply_ratio_to_pressure(audio_fs, pressure, ratio_db) == scale(pressure, ratio_db)

\* line 231: audio *= ratio_loud
apply_ratio(audio_fs, pressure, ratio_db) == scale(audio_fs, ratio_db)

\* the measurement is exact in the model's units
Exact(o, audio_pressure) == (o.num * spl(audio_pressure)) % o.den = 0

\* ------------------------------------------------------------------- state
VARIABLES
    in1, fs_in1,    \* the caller's impulse-response array and its rate
    in2, fs_in2,    \* the caller's stimulus array and its rate
    opts,           \* the keyword arguments of the caller's convolution calls
    calls,          \* convolution calls made so far
    ret,            \* outcome of the latest call
    prev            \* outcome of the call before it

convVars == <<in1, fs_in1, in2, fs_in2, opts, calls, ret, prev>>

NoCall == [status |-> "none", audio |-> NoAudio, fs |-> 0]

\* ------------------------------------------------- calibration: the inputs
\* buffers with peak 1.0 (0 dBFS), -0.4 dB and -6.4 dB
CalAudio ==
    { <<Sample(1, 0), Sample(-1, -2 * PhonUnit)>>,
      <<Sample(-1, -4096), Sample(0, 0), Sample(1, -4096)>>,
      <<Sample(1, -65536)>> }

DbfsDb == 100 * PhonUnit        \* 0 dBFS plays at 100 dB SPL

Phon60 == 60 * PhonUnit

\* oracles with slope num/2 phon per dB that read 60 phon at 100 dB SPL
Slopes == {0, 1, 2, 3, 4}

Oracle(num) == [num |-> num, den |-> 2, c |-> Phon60 - (num * DbfsDb) \div 2]

Oracles == {Oracle(num) : num \in Slopes}

\* targets of 60 phon +0, +-0.1, +0.15, +-0.8, +3.2, -6.4 phon
TargetPhons ==
    {Phon60 + d : d \in {0, 1024, -1024, 1536, 8192, -8192, 32768, -65536}}

NoResult == [status |-> "none", audio |-> <<>>, fs |-> 0, ratio |-> 0,
             has_ratio |-> FALSE, headroom_db |-> 0]

VARIABLES
    audio,          \* the caller's buffer, passed as audio
    fs,             \* its sample rate
    target_phon, dbfs_db, return_ratio,     \* the other arguments
    oracle,         \* the loudness model behind eq_loudness_lvl
    audio_pressure, \* local: pressure-domain copy
    loud_lvl,       \* local: loudness level measured last
    loud_diff,      \* local: target_phon - loud_lvl
    ratio_loud,     \* local: cumulative ratio, as 20*log10
    n,              \* local: iterations performed
    pc,             \* "idle", "while" (at the loop test), "returned", "raised"
    result,         \* what the call returned or raised
    audio0,         \* history: the caller's buffer as it was passed
    diffs           \* history: the loud_diff applied by each iteration

calVars == <<audio, fs, target_phon, dbfs_db, return_ratio, oracle, audio_pressure,
             loud_lvl, loud_diff, ratio_loud, n, pc, result, audio0, diffs>>

\* ------------------------------------------ direct calls of pure functions
\* 1.0 of a buffer handed to a function directly is FnUnit
FnUnit == 20

ExampleAudio == <<10, -5, 2>>                    \* [0.5, -0.25, 0.1]

FnVals == {10, -5, 2, -20}

FnBuffers ==
    {<<c>> : c \in SeqsUpTo(FnVals, MaxFrames)}
    \cup {<<ExampleAudio, Negated(ExampleAudio)>>}

FnRates == {38, 50}

\* target rates handed to match_fs, the non-positive ones included
FnTargetRates == FnRates \cup {0, -38}

FnPeaks == {0, -6}

\* up_down: last and step, dB
FnLasts == {0, -4, 6}

FnSteps == {2, 4}

\* a buffer under a gain held in dB (10**(g/20) is irrational)
Gained(buf, g) == [samples |-> buf, gain_db |-> g]

\* lines 273-278: audio *= 10**(last/20); the values of audio*ratio and
\* audio/ratio are dropped, audio is returned as it is after the first line
up_down(buf, direction, last, step) == Gained(buf, last)

NoReturn == [status |-> "none", audio |-> NoBuffer, ulp |-> NoBuffer, fs |-> 0]

VARIABLES
    fn_in,          \* the buffer passed (in1 of match_fs, audio of peak_normalize)
    fn_fs,          \* its sampling rate (fs_in1, fs)
    fn_fs2,         \* match_fs: the rate to match (fs_in2)
    fn_peak,        \* peak_normalize: peak, dBFS
    fn_direction,   \* up_down: direction
    fn_last,        \* up_down: last
    fn_step,        \* up_down: step
    fn_in_db,       \* gain the callee has written into the caller's array, dB
    fn_call,        \* "none", or the function that was called
    fn_out          \* what the call returned or raised

fnVars == <<fn_in, fn_fs, fn_fs2, fn_peak, fn_direction, fn_last, fn_step, fn_in_db,
           fn_call, fn_out>>

\* --------------------------------------- examples: batch_convolution
\* peak_lvl : int = -12
PeakLvl == -12

\* impulse-response variants of one batch: long enough for the taper, a unit
\* impulse with a silent tail among them
BatchIRs == {b \in IRs : Frames(b) >= 2} \cup {<<<<IRUnit, 0, 0>>>>}

BatchStimuli == {<<ScenarioStim>>, <<<<-1>>>>, <<ScenarioStim, <<1, 1, 1>>>>}

\* rates of the impulse-response files; the stimulus is at 38
BatchRates == {19, 38}

\* test_audio.max(): the largest sample, sign included
signed_max(buf) == MaxSeq([c \in 1..Len(buf) |-> MaxSeq(buf[c])])

\* the quotient 0/0 of two numpy floats
NaN == Factor("nan", 0, <<0, 0>>)

\* lines 95-97: _test_audio = test_audio * f with the peak factor f, and
\* factor = _test_audio.max()/test_audio.max() is f again unless the largest
\* sample of test_audio is 0
batch_factor(test_audio, lvl) ==
    IF signed_max(test_audio) = 0 THEN NaN
    ELSE peak_normalize(test_audio, 0, lvl, NoRef).audio.factor

\* mutant: the variant is written as convolved
scale_variant_skipped(test_audio, fac) == Scaled(test_audio, One)

\* test_audio *= factor
scale_variant(test_audio, fac) == Scaled(test_audio, fac)

VARIABLES
    irs,            \* the impulse responses of the variants (arrays the callee may write)
    fs_irs,         \* their rates
    stimuli,        \* the stimulus
    fs_stimuli,     \* its rate
    peak_lvl,       \* peak level asked for, dBFS
    factor,         \* the correction factor, once derived
    written,        \* the files written so far, in order
    batch_pc        \* "idle", "start", "loop", "done", "raised"

batchVars == <<irs, fs_irs, stimuli, fs_stimuli, peak_lvl, factor, written, batch_pc>>

\* the batch variables while another specification runs
BatchIdle ==
    /\ irs = <<>> /\ fs_irs = <<>> /\ stimuli = <<>> /\ fs_stimuli = 0
    /\ peak_lvl = 0 /\ factor = One /\ written = <<>> /\ batch_pc = "idle"

\* ------------------------------------------------------------- config.py
\* options of the Identifiers section the function looks for
IdentifierOptions == {"FirstName", "SecondName", "DateOfBirth", "Gender", "HearingImpaired"}

NoSection == [absent |-> TRUE]

NoDict == [absent |-> TRUE]

EmptyDict == [k \in {} |-> ""]

\* what the path can lead to: no file, a file configparser cannot parse, or
\* a file with or without its Identifiers and Settings sections
CfgFiles ==
    {[kind |-> "missing", identifiers |-> NoSection, settings |-> NoSection],
     [kind |-> "malformed", identifiers |-> NoSection, settings |-> NoSection]}
    \cup [kind : {"ok"},
          identifiers : {NoSection} \cup UNION {[K -> {"x"}] : K \in SUBSET IdentifierOptions},
          settings : {NoSection, [Stimuli |-> "./stimuli"]}]

\* lines 35-44: the key each option is stored under
person_key(option) ==
    CASE option = "FirstName" -> "first_name"
      [] option = "SecondName" -> "second_name"
      [] option = "DateOfBirth" -> "date_of_birth"
      [] option = "Gender" -> "date_of_birth_day"
      [] option = "HearingImpaired" -> "hear_impaired"

\* cfg.read ignores a missing file and raises on a malformed one;
\* cfg['Identifiers'] raises KeyError when the section is absent
identifiers_readable(file) == file.kind = "ok" /\ file.identifiers # NoSection

\* lines 29-47: the except clause builds an IOError and does not raise it
person_identifiers(file) ==
    IF identifiers_readable(file)
    THEN [status |-> "ok",
          dict |-> [k \in {person_key(o) : o \in DOMAIN file.identifiers} |->
                       file.identifiers[CHOOSE o \in DOMAIN file.identifiers :
                                            person_key(o) = k]]]
    ELSE [status |-> "ok", dict |-> EmptyDict]

\* lines 71-81: cfg.items('Settings') raises when the section is absent, and
\* the except clause raises IOError
test_settings(file) ==
    IF file.kind = "ok" /\ file.settings # NoSection
    THEN [status |-> "ok", dict |-> file.settings]
    ELSE [status |-> "IOError", dict |-> NoDict]

VARIABLES
    cfg_file,       \* what is found at path
    cfg_call,       \* "none", or the function that was called
    cfg_ret         \* what it returned or raised

cfgVars == <<cfg_file, cfg_call, cfg_ret>>

NoCfgReturn == [status |-> "none", dict |-> NoDict]

\* the configuration variables while another specification runs
CfgIdle ==
    /\ cfg_file = [kind |-> "missing", identifiers |-> NoSection, settings |-> NoSection]
    /\ cfg_call = "none" /\ cfg_ret = NoCfgReturn

\* ---------------------------------------------------- set_preparation.py
\* A path is the rank of its name among the names of the folder, so that
\* sorting by path is sorting by number.  read_folder returns the wav files
\* in the order os.scandir yields them, which is any order.
PathLists ==
    {l \in UNION {[1..k -> 1..MaxFiles] : k \in 0..MaxFiles} :
        \A i, j \in DOMAIN l : i # j => l[i] # l[j]}

\* itertools.combinations(audio_path_list, 2)
RECURSIVE combinations2(_)
combinations2(l) ==
    IF Len(l) < 2 THEN <<>>
    ELSE [k \in 1..(Len(l) - 1) |-> <<l[1], l[k + 1]>>] \o combinations2(Tail(l))

\* lines 151-154/157: columns '0', '1', ID (the row number) and Ref = '0'
frame_ref0(l) ==
    [r \in 1..Len(combinations2(l)) |->
        [c0 |-> combinations2(l)[r][1], c1 |-> combinations2(l)[r][2],
         ID |-> r - 1, Ref |-> combinations2(l)[r][1]]]

\* line 158: the copy with Ref = '1'
with_ref1(frame) == [r \in 1..Len(frame) |-> [frame[r] EXCEPT !.Ref = frame[r].c1]]

\* line 162: columns '0' and '1' exchanged
inverted(frame) ==
    [r \in 1..Len(frame) |-> [frame[r] EXCEPT !.c0 = frame[r].c1, !.c1 = frame[r].c0]]

\* line 163: reset_index(drop=True) numbers the rows of the concatenation
reset_index(frame) ==
    [r \in 1..Len(frame) |->
        [index |-> r - 1, c0 |-> frame[r].c0, c1 |-> frame[r].c1,
         ID |-> frame[r].ID, Ref |-> frame[r].Ref]]

\* line 164: sort_values(by=['0']) orders the rows by column '0' and leaves
\* the order of rows with equal '0' to the sort; the sorted frame is held as
\* the rows of each value of '0', values ascending
sort_values(frame) ==
    LET keys == {frame[r].c0 : r \in DOMAIN frame}
        rank(k) == Cardinality({x \in keys : x < k}) + 1
    IN  [g \in 1..Cardinality(keys) |->
            {frame[r] : r \in {q \in DOMAIN frame : rank(frame[q].c0) = g}}]

abx_combination(l, cr) ==
    LET comb == IF cr THEN frame_ref0(l) ELSE frame_ref0(l) \o with_ref1(frame_ref0(l))
    IN  sort_values(reset_index(comb \o inverted(comb)))

NoFrame == [absent |-> TRUE]

VARIABLES
    audio_path_list,        \* what read_folder(folder, parent) returns
    constant_reference,
    audio_path_comb         \* the frame returned, NoFrame before the call

combVars == <<audio_path_list, constant_reference, audio_path_comb>>

\* the combination variables while another specification runs
CombIdle ==
    /\ audio_path_list = <<>> /\ constant_reference = FALSE /\ audio_path_comb = NoFrame

\* ------------------------------------------------------- gui/abx.py, gui.py
NORMAL == "normal"

DISABLED == "disabled"

PlayButtons == {"button_a", "button_b", "button_ref"}

Radios == {"choice_A", "choice_B"}

Widgets == PlayButtons \cup Radios \cup {"button_next"}

\* lines 84-163: the states the widgets are created with
InitialStates ==
    [w \in Widgets |-> IF w = "button_a" THEN NORMAL ELSE DISABLED]

NoResponse == [absent |-> TRUE]

\* the rows of combinations: two stimuli and the one of them that is the
\* reference; the response columns are empty at the start
TrialRows == {[c0 |-> 1, c1 |-> 2, Ref |-> 1, response |-> NoResponse],
              [c0 |-> 1, c1 |-> 2, Ref |-> 2, response |-> NoResponse]}

\* for n in next_buttons: n.configure(state=ctk.NORMAL)
enable(st, next_buttons) == [w \in Widgets |-> IF w \in next_buttons THEN NORMAL ELSE st[w]]

\* check_choice: Next is enabled when the last play button is enabled
check_choice(st, last_played, button_end) ==
    IF st[last_played] = NORMAL THEN enable(st, {button_end}) ELSE st

\* first_clicked: the time of the first click is kept; t is {button: time},
\* 0 for a button without a time, clock the last value time.time() gave
first_clicked(t, button, clock) ==
    IF t[button] = 0 THEN [t EXCEPT ![button] = clock + 1] ELSE t

time_read(t, button, clock) == IF t[button] = 0 THEN clock + 1 ELSE clock

\* right_answer: the column holding the reference
right_answer(row) == IF row.c0 = row.Ref THEN "0" ELSE "1"

\* mutant: button B is left as it is
reset_states_keep_b(st) ==
    [w \in Widgets |-> IF w = "button_a" THEN NORMAL
                       ELSE IF w = "button_b" THEN st[w] ELSE DISABLED]

\* store_response, lines 202-214: play buttons and radios disabled, then A
\* enabled and Next disabled
reset_states(st) == [w \in Widgets |-> IF w = "button_a" THEN NORMAL ELSE DISABLED]

\* mutant: the row is looked up after progress has moved on
store_row_moved(frame, row, resp) ==
    [r \in DOMAIN frame |-> IF r = row + 2 THEN [frame[r] EXCEPT !.response = resp]
                            ELSE frame[r]]

\* move_to_next, line 225: combinations.loc[row, cols] = [...]; rows are
\* labelled from 0
store_row(frame, row, resp) ==
    [r \in DOMAIN frame |-> IF r = row + 1 THEN [frame[r] EXCEPT !.response = resp]
                            ELSE frame[r]]

VARIABLES
    combinations,   \* the frame of trials, responses included
    last_idx,
    progress,
    choice,         \* the StringVar behind the two radio buttons
    widget_state,   \* state option of each widget
    click_count,    \* click_count of each play button
    button_time,    \* time attribute of the buttons, 0 when unset
    now,            \* the last value time.time() returned
    played,         \* (row, column) of every stimulus played back so far
    destroyed       \* master.destroy() was called

abxVars == <<combinations, last_idx, progress, choice, widget_state, click_count,
             button_time, now, played, destroyed>>

\* the ABX window variables while another specification runs
AbxIdle ==
    /\ combinations = <<>> /\ last_idx = 0 /\ progress = 0 /\ choice = ""
    /\ widget_state = InitialStates
    /\ click_count = [b \in PlayButtons |-> 0]
    /\ button_time = [b \in PlayButtons \cup {"button_next"} |-> 0]
    /\ now = 0 /\ played = {} /\ destroyed = FALSE

\* ------------------------------------------------------- gui/adaptive.py
NoAnswer == [absent |-> TRUE]

\* the rows of one set after load_sentences: columns answer and ir_id, empty
SentenceRows(size) == [r \in 1..size |-> [answer |-> NoAnswer, ir_id |-> NoAnswer]]

\* Series.iloc[i] on a table of len rows: positions -len..len-1 are read
\* (negative ones from the end), any other raises IndexError
iloc_raises(i, len) == i < -len \/ i >= len

iloc_position(i, len) == IF i < 0 THEN i + len ELSE i

\* irs.index[initial_difficulty] of a table labelled 0..len-1
first_difficulty(initial, len) == iloc_position(initial, len)

\* sets.index[-1] of the frame adaptive_combination concatenates: every set
\* keeps its own labels 0..size-1, the last label is that of the last set
last_label(sizes) == sizes[Len(sizes)] - 1

\* lines 229-240: what is left in the answer column of the row
recorded_answer(chosen, row) ==
    IF chosen = "Correct" THEN 1
    ELSE IF row # 0 THEN 0
    ELSE chosen

VARIABLES
    set_sizes,          \* sizes of the sets in sets, in their order
    set_id,             \* the set entered in the start frame (its place in sets)
    irs_len,            \* rows of irs
    initial_difficulty,
    difficulty,
    ad_last_idx,        \* self.last_idx
    current_set,
    ad_progress,        \* self.progress
    ad_choice,          \* self.choice, the variable of the segmented button
    current_sentence,   \* row whose transcription is shown
    ad_state,           \* state of segmented_button and button_next
    ad_frame,           \* frame shown: "start", "test", "intermediate"
    played_now,         \* the sentence was played back since the last Next
    selected_now        \* Wrong or Correct was clicked since the last Next

adVars == <<set_sizes, set_id, irs_len, initial_difficulty, difficulty, ad_last_idx,
            current_set, ad_progress, ad_choice, current_sentence, ad_state, ad_frame,
            played_now, selected_now>>

AdWidgetsDisabled == [w \in {"segmented_button", "button_next"} |-> DISABLED]

\* the adaptive window variables while another specification runs
AdIdle ==
    /\ set_sizes = <<>> /\ set_id = 0 /\ irs_len = 0 /\ initial_difficulty = 0
    /\ difficulty = 0 /\ ad_last_idx = 0 /\ current_set = <<>> /\ ad_progress = 0
    /\ ad_choice = "" /\ current_sentence = 0 /\ ad_state = AdWidgetsDisabled
    /\ ad_frame = "idle" /\ played_now = FALSE /\ selected_now = FALSE

vars == <<convVars, calVars, fnVars, batchVars, cfgVars, combVars, abxVars, adVars>>

\* the direct-call variables while another specification runs
FnIdle ==
    /\ fn_in = NoBuffer /\ fn_fs = 0 /\ fn_fs2 = 0 /\ fn_peak = 0
    /\ fn_direction = FALSE /\ fn_last = 0 /\ fn_step = 0 /\ fn_in_db = 0
    /\ fn_call = "none" /\ fn_out = NoReturn

\* the calibration variables while the convolution engine is exercised
CalIdle ==
    /\ audio = <<>> /\ fs = 0 /\ target_phon = 0 /\ dbfs_db = 0
    /\ return_ratio = FALSE /\ oracle = Oracle(0) /\ audio_pressure = <<>>
    /\ loud_lvl = 0 /\ loud_diff = 0 /\ ratio_loud = 0 /\ n = 0
    /\ pc = "idle" /\ result = NoResult /\ audio0 = <<>> /\ diffs = <<>>

\* the convolution variables while the loudness loop is exercised
ConvIdle ==
    /\ in1 = <<>> /\ fs_in1 = 0 /\ in2 = <<>> /\ fs_in2 = 0
    /\ opts = [fade_out |-> FALSE, normalization |-> "None",
               normalization_target |-> 0, normalization_prefilter |-> ""]
    /\ calls = 0 /\ ret = NoCall /\ prev = NoCall


ConvInit ==
    /\ in1 \in IRs
    /\ in2 \in Stimuli
    /\ \E r \in RatePairs : fs_in1 = r[1] /\ fs_in2 = r[2]
    /\ opts \in Options
    /\ calls = 0
    /\ ret = NoCall
    /\ prev = NoCall
    /\ CalIdle
    /\ FnIdle
    /\ BatchIdle
    /\ CfgIdle
    /\ CombIdle
    /\ AbxIdle
    /\ AdIdle

\* audio, fs = convolution(in1, fs_in1, in2, fs_in2, **opts)
Convolution ==
    /\ calls < MaxCalls
    /\ \E r \in {convolution(in1, fs_in1, in2, fs_in2, opts.fade_out,
                               opts.normalization, opts.normalization_target,
                               opts.normalization_prefilter)} :
           /\ ret' = [status |-> r.status, audio |-> r.audio, fs |-> r.fs]
           /\ in1' = r.in1
    /\ prev' = ret
    /\ calls' = calls + 1
    /\ UNCHANGED <<fs_in1, in2, fs_in2, opts>>
    /\ UNCHANGED calVars
    /\ UNCHANGED fnVars
    /\ UNCHANGED batchVars
    /\ UNCHANGED cfgVars
    /\ UNCHANGED combVars
    /\ UNCHANGED abxVars
    /\ UNCHANGED adVars

ConvNext == Convolution

SpecConv == ConvInit /\ [][ConvNext]_vars

CalInit ==
    /\ ConvIdle
    /\ FnIdle
    /\ BatchIdle
    /\ CfgIdle
    /\ CombIdle
    /\ AbxIdle
    /\ AdIdle
    /\ audio \in CalAudio
    /\ audio0 = audio
    /\ fs = 44100
    /\ target_phon \in TargetPhons
    /\ dbfs_db = DbfsDb
    /\ return_ratio \in BOOLEAN
    /\ oracle \in Oracles
    /\ audio_pressure = <<>>
    /\ loud_lvl = 0 /\ loud_diff = 0 /\ ratio_loud = 0 /\ n = 0
    /\ pc = "idle"
    /\ result = NoResult
    /\ diffs = <<>>

\* lines 217-222: first measurement
Measure ==
    /\ pc = "idle"
    /\ audio_pressure' = fs_to_pressure(audio, dbfs_db)
    /\ loud_lvl' = eq_loudness_lvl(oracle, audio_pressure')
    /\ loud_diff' = target_phon - loud_lvl'
    /\ ratio_loud' = 0                      \* ratio_loud = 1
    /\ n' = 0
    /\ pc' = "while"
    /\ UNCHANGED <<audio, fs, target_phon, dbfs_db, return_ratio, oracle, result,
                   audio0, diffs>>
    /\ UNCHANGED convVars
    /\ UNCHANGED fnVars
    /\ UNCHANGED batchVars
    /\ UNCHANGED cfgVars
    /\ UNCHANGED combVars
    /\ UNCHANGED abxVars
    /\ UNCHANGED adVars

\* lines 223-229: one pass through the body of the while loop
Iterate ==
    /\ pc = "while"
    /\ Abs(loud_diff) > Tolerance
    /\ n < MaxIter
    /\ ratio_loud' = ratio_update(ratio_loud, loud_diff)
    /\ loud_lvl' = eq_loudness_lvl(oracle, scale(audio_pressure, ratio_loud'))
    /\ loud_diff' = target_phon - loud_lvl'
    /\ n' = n + 1
    /\ diffs' = Append(diffs, loud_diff)
    /\ UNCHANGED <<audio, fs, target_phon, dbfs_db, return_ratio, oracle,
                   audio_pressure, pc, result, audio0>>
    /\ UNCHANGED convVars
    /\ UNCHANGED fnVars
    /\ UNCHANGED batchVars
    /\ UNCHANGED cfgVars
    /\ UNCHANGED combVars
    /\ UNCHANGED abxVars
    /\ UNCHANGED adVars

\* lines 230-248: leave the loop, scale in place, check the headroom
Finish ==
    /\ pc = "while"
    /\ Abs(loud_diff) <= Tolerance
    /\ audio' = apply_ratio(audio, audio_pressure, ratio_loud)
    /\ LET headroom_db == -peak_db(audio')          \* 20*log10(1/abs(audio).max())
       IN  IF clips(audio')
           THEN /\ pc' = "raised"
                /\ result' = [status |-> "ValueError", audio |-> <<>>, fs |-> 0,
                              ratio |-> 0, has_ratio |-> FALSE,
                              headroom_db |-> headroom_db]
           ELSE /\ pc' = "returned"
                /\ result' = [status |-> "ok", audio |-> audio', fs |-> fs,
                              ratio |-> IF return_ratio THEN ratio_loud ELSE 0,
                              has_ratio |-> return_ratio,
                              headroom_db |-> headroom_db]
    /\ UNCHANGED <<fs, target_phon, dbfs_db, return_ratio, oracle, audio_pressure,
                   loud_lvl, loud_diff, ratio_loud, n, audio0, diffs>>
    /\ UNCHANGED convVars
    /\ UNCHANGED fnVars
    /\ UNCHANGED batchVars
    /\ UNCHANGED cfgVars
    /\ UNCHANGED combVars
    /\ UNCHANGED abxVars
    /\ UNCHANGED adVars

CalNext == Measure \/ Iterate \/ Finish

SpecCal == CalInit /\ [][CalNext]_vars

\* ----------------------------------------------- specification: direct calls
FnInit ==
    /\ ConvIdle
    /\ CalIdle
    /\ BatchIdle
    /\ CfgIdle
    /\ CombIdle
    /\ AbxIdle
    /\ AdIdle
    /\ fn_in \in FnBuffers
    /\ fn_fs \in FnRates
    /\ fn_fs2 \in FnTargetRates
    /\ fn_peak \in FnPeaks
    /\ fn_direction \in BOOLEAN
    /\ fn_last \in FnLasts
    /\ fn_step \in FnSteps
    /\ fn_in_db = 0
    /\ fn_call = "none"
    /\ fn_out = NoReturn

\* new_in1, fs_in1 = match_fs(in1, fs_in2, fs_in1)
MatchFs ==
    /\ fn_call = "none"
    /\ \E e \in RoundOffs(new_len(fn_in, fn_fs2, fn_fs)) :
           fn_out' = match_fs_call(fn_in, fn_fs2, fn_fs, e)
    /\ fn_call' = "match_fs"
    /\ UNCHANGED <<fn_in, fn_fs, fn_fs2, fn_peak, fn_direction, fn_last, fn_step, fn_in_db>>
    /\ UNCHANGED convVars
    /\ UNCHANGED calVars
    /\ UNCHANGED batchVars
    /\ UNCHANGED cfgVars
    /\ UNCHANGED combVars
    /\ UNCHANGED abxVars
    /\ UNCHANGED adVars

\* audio, fs = peak_normalize(audio, fs, peak)
PeakNormalize ==
    /\ fn_call = "none"
    /\ fn_out' = [status |-> "ok",
                  audio |-> peak_normalize(fn_in, fn_fs, fn_peak, NoRef).audio,
                  ulp |-> NoBuffer,
                  fs |-> peak_normalize(fn_in, fn_fs, fn_peak, NoRef).fs]
    /\ fn_call' = "peak_normalize"
    /\ UNCHANGED <<fn_in, fn_fs, fn_fs2, fn_peak, fn_direction, fn_last, fn_step, fn_in_db>>
    /\ UNCHANGED convVars
    /\ UNCHANGED calVars
    /\ UNCHANGED batchVars
    /\ UNCHANGED cfgVars
    /\ UNCHANGED combVars
    /\ UNCHANGED abxVars
    /\ UNCHANGED adVars

\* audio = up_down(audio, direction, last, step)
UpDown ==
    /\ fn_call = "none"
    /\ fn_out' = [status |-> "ok",
                  audio |-> up_down(fn_in, fn_direction, fn_last, fn_step),
                  ulp |-> NoBuffer, fs |-> fn_fs]
    /\ fn_in_db' = up_down(fn_in, fn_direction, fn_last, fn_step).gain_db
    /\ fn_call' = "up_down"
    /\ UNCHANGED <<fn_in, fn_fs, fn_fs2, fn_peak, fn_direction, fn_last, fn_step>>
    /\ UNCHANGED convVars
    /\ UNCHANGED calVars
    /\ UNCHANGED batchVars
    /\ UNCHANGED cfgVars
    /\ UNCHANGED combVars
    /\ UNCHANGED abxVars
    /\ UNCHANGED adVars

FnNext == MatchFs \/ PeakNormalize \/ UpDown

SpecFn == FnInit /\ [][FnNext]_vars

\* ------------------------------------------ specification: batch_convolution
BatchInit ==
    /\ ConvIdle
    /\ CalIdle
    /\ FnIdle
    /\ CfgIdle
    /\ CombIdle
    /\ AbxIdle
    /\ AdIdle
    /\ irs \in [1..2 -> BatchIRs]
    /\ fs_irs \in [1..2 -> BatchRates]
    /\ stimuli \in BatchStimuli
    /\ fs_stimuli = 38
    /\ peak_lvl = PeakLvl
    /\ factor = One
    /\ written = <<>>
    /\ batch_pc = "start"

\* lines 92-97: the first variant convolved without normalization, the
\* factor that would bring its peak to peak_lvl
DeriveFactor ==
    /\ batch_pc = "start"
    /\ \E r \in {convolution(irs[1], fs_irs[1], stimuli, fs_stimuli,
                              TRUE, "None", -6, "")} :
           IF r.status = "ok"
           THEN /\ irs' = [irs EXCEPT ![1] = r.in1]
                /\ factor' = batch_factor(r.audio.samples, peak_lvl)
                /\ batch_pc' = "loop"
           ELSE /\ batch_pc' = "raised"
                /\ UNCHANGED <<irs, factor>>
    /\ UNCHANGED <<fs_irs, stimuli, fs_stimuli, peak_lvl, written>>
    /\ UNCHANGED convVars
    /\ UNCHANGED calVars
    /\ UNCHANGED fnVars
    /\ UNCHANGED cfgVars
    /\ UNCHANGED combVars
    /\ UNCHANGED abxVars
    /\ UNCHANGED adVars

\* lines 99-104: one pass of the loop over the variants
WriteVariant ==
    /\ batch_pc = "loop"
    /\ \E v \in {Len(written) + 1} :
       \E r \in {convolution(irs[v], fs_irs[v], stimuli, fs_stimuli,
                              TRUE, "None", -6, "")} :
           IF r.status = "ok"
           THEN /\ irs' = [irs EXCEPT ![v] = r.in1]
                /\ written' = Append(written,
                                  [audio |-> scale_variant(r.audio.samples, factor),
                                   fs |-> r.fs])
                /\ batch_pc' = IF v = Len(irs) THEN "done" ELSE "loop"
           ELSE /\ batch_pc' = "raised"
                /\ UNCHANGED <<irs, written>>
    /\ UNCHANGED <<fs_irs, stimuli, fs_stimuli, peak_lvl, factor>>
    /\ UNCHANGED convVars
    /\ UNCHANGED calVars
    /\ UNCHANGED fnVars
    /\ UNCHANGED cfgVars
    /\ UNCHANGED combVars
    /\ UNCHANGED abxVars
    /\ UNCHANGED adVars

BatchNext == DeriveFactor \/ WriteVariant

SpecBatch == BatchInit /\ [][BatchNext]_vars

\* -------------------------------------------------- specification: config
CfgInit ==
    /\ ConvIdle
    /\ CalIdle
    /\ FnIdle
    /\ BatchIdle
    /\ CombIdle
    /\ AbxIdle
    /\ AdIdle
    /\ cfg_file \in CfgFiles
    /\ cfg_call = "none"
    /\ cfg_ret = NoCfgReturn

\* person_dict = person_identifiers(path)
PersonIdentifiers ==
    /\ cfg_call = "none"
    /\ cfg_ret' = person_identifiers(cfg_file)
    /\ cfg_call' = "person_identifiers"
    /\ UNCHANGED cfg_file
    /\ UNCHANGED convVars
    /\ UNCHANGED calVars
    /\ UNCHANGED fnVars
    /\ UNCHANGED batchVars
    /\ UNCHANGED combVars
    /\ UNCHANGED abxVars
    /\ UNCHANGED adVars

\* settings = test_settings(path)
TestSettings ==
    /\ cfg_call = "none"
    /\ cfg_ret' = test_settings(cfg_file)
    /\ cfg_call' = "test_settings"
    /\ UNCHANGED cfg_file
    /\ UNCHANGED convVars
    /\ UNCHANGED calVars
    /\ UNCHANGED fnVars
    /\ UNCHANGED batchVars
    /\ UNCHANGED combVars
    /\ UNCHANGED abxVars
    /\ UNCHANGED adVars

CfgNext == PersonIdentifiers \/ TestSettings

SpecCfg == CfgInit /\ [][CfgNext]_vars

\* ----------------------------------------- specification: abx_combination
CombInit ==
    /\ ConvIdle
    /\ CalIdle
    /\ FnIdle
    /\ BatchIdle
    /\ CfgIdle
    /\ AbxIdle
    /\ AdIdle
    /\ audio_path_list \in PathLists
    /\ constant_reference \in BOOLEAN
    /\ audio_path_comb = NoFrame

\* audio_path_comb = abx_combination(folder, parent, constant_reference)
AbxCombination ==
    /\ audio_path_comb = NoFrame
    /\ audio_path_comb' = abx_combination(audio_path_list, constant_reference)
    /\ UNCHANGED <<audio_path_list, constant_reference>>
    /\ UNCHANGED convVars
    /\ UNCHANGED calVars
    /\ UNCHANGED fnVars
    /\ UNCHANGED batchVars
    /\ UNCHANGED cfgVars
    /\ UNCHANGED abxVars
    /\ UNCHANGED adVars

CombNext == AbxCombination

SpecComb == CombInit /\ [][CombNext]_vars

\* ----------------------------------------------- specification: ABX window
AbxInit ==
    /\ ConvIdle
    /\ CalIdle
    /\ FnIdle
    /\ BatchIdle
    /\ CfgIdle
    /\ CombIdle
    /\ AdIdle
    /\ combinations \in UNION {[1..k -> TrialRows] : k \in 1..MaxRows}
    /\ last_idx = Len(combinations) - 1
    /\ progress = 0
    /\ choice = ""
    /\ widget_state = InitialStates
    /\ click_count = [b \in PlayButtons |-> 0]
    /\ button_time = [b \in PlayButtons \cup {"button_next"} |-> 0]
    /\ now = 0
    /\ played = {}
    /\ destroyed = FALSE

\* gui.play_click(combinations.loc[progress, column], button, next_buttons):
\* the click is counted and timed, then the stimulus is played and the next
\* buttons enabled; when play_sound raises, the callback ends there
PlayClick(button, column, next_buttons) ==
    /\ ~destroyed
    /\ widget_state[button] = NORMAL
    /\ click_count[button] < MaxClicks
    /\ click_count' = [click_count EXCEPT ![button] = @ + 1]
    /\ button_time' = first_clicked(button_time, button, now)
    /\ now' = time_read(button_time, button, now)
    /\ \E sound_ok \in BOOLEAN :
           IF sound_ok
           THEN /\ played' = played \cup {<<progress, column>>}
                /\ widget_state' = enable(widget_state, next_buttons)
           ELSE UNCHANGED <<played, widget_state>>
    /\ UNCHANGED <<combinations, last_idx, progress, choice, destroyed>>
    /\ UNCHANGED convVars
    /\ UNCHANGED calVars
    /\ UNCHANGED fnVars
    /\ UNCHANGED batchVars
    /\ UNCHANGED cfgVars
    /\ UNCHANGED combVars
    /\ UNCHANGED adVars

ClickA == PlayClick("button_a", "0", {"button_b"})

ClickB == PlayClick("button_b", "1", {"button_ref"})

ClickRef == PlayClick("button_ref", "Ref", Radios)

\* a click on a radio button: the variable takes its value, then
\* gui.check_choice(button_b, button_next)
ClickChoice(radio, value) ==
    /\ ~destroyed
    /\ widget_state[radio] = NORMAL
    /\ choice' = value
    /\ widget_state' = check_choice(widget_state, "button_b", "button_next")
    /\ UNCHANGED <<combinations, last_idx, progress, click_count, button_time, now,
                   played, destroyed>>
    /\ UNCHANGED convVars
    /\ UNCHANGED calVars
    /\ UNCHANGED fnVars
    /\ UNCHANGED batchVars
    /\ UNCHANGED cfgVars
    /\ UNCHANGED combVars
    /\ UNCHANGED adVars

ClickChoiceA == ClickChoice("choice_A", "0")

ClickChoiceB == ClickChoice("choice_B", "1")

\* move_to_next with store_response, lines 180-228
ClickNext ==
    /\ ~destroyed
    /\ widget_state["button_next"] = NORMAL
    /\ LET row == progress
           right_choice == IF right_answer(combinations[row + 1]) = choice THEN 1 ELSE 0
           clicks == click_count["button_b"] + click_count["button_ref"]
                         + click_count["button_a"]
           stamped == first_clicked(button_time, "button_next", now)
           t == stamped["button_next"] - stamped["button_a"]
       IN  /\ click_count' = [b \in PlayButtons |-> 0]
           /\ choice' = ""
           /\ progress' = progress + 1
           /\ now' = time_read(button_time, "button_next", now)
           /\ button_time' = [stamped EXCEPT !["button_a"] = 0, !["button_next"] = 0]
           /\ widget_state' = reset_states(widget_state)
           /\ combinations' = store_row(combinations, row,
                                        [right_choice |-> right_choice,
                                         clicks |-> clicks, time |-> t])
           /\ destroyed' = (progress' > last_idx)
    /\ UNCHANGED <<last_idx, played>>
    /\ UNCHANGED convVars
    /\ UNCHANGED calVars
    /\ UNCHANGED fnVars
    /\ UNCHANGED batchVars
    /\ UNCHANGED cfgVars
    /\ UNCHANGED combVars
    /\ UNCHANGED adVars

AbxNext == ClickA \/ ClickB \/ ClickRef \/ ClickChoiceA \/ ClickChoiceB \/ ClickNext

SpecAbx == AbxInit /\ [][AbxNext]_vars

\* ------------------------------------------ specification: adaptive window
\* Adaptive(master, sets, irs) with set_id=None: current_set is all of sets
\* and last_idx its last label; the start frame is shown
AdInit ==
    /\ ConvIdle
    /\ CalIdle
    /\ FnIdle
    /\ BatchIdle
    /\ CfgIdle
    /\ CombIdle
    /\ AbxIdle
    /\ set_sizes \in [1..2 -> 1..MaxSentences]
    /\ set_id \in 1..2
    /\ irs_len \in 1..MaxIrs
    /\ initial_difficulty \in {-1, 0}
    /\ difficulty = first_difficulty(initial_difficulty, irs_len)
    /\ ad_last_idx = last_label(set_sizes)
    /\ current_set = SentenceRows(set_sizes[1]) \o SentenceRows(set_sizes[2])
    /\ ad_progress = 0
    /\ ad_choice = ""
    /\ current_sentence = 0
    /\ ad_state = AdWidgetsDisabled
    /\ ad_frame = "start"
    /\ played_now = FALSE
    /\ selected_now = FALSE

\* InitFrameAdaptive.button_clicked: set_id, load_sentences, switch_frame;
\* load_sentences leaves last_idx as the constructor set it
StartTest ==
    /\ ad_frame = "start"
    /\ current_set' = SentenceRows(set_sizes[set_id])
    /\ ad_progress' = 0
    /\ difficulty' = first_difficulty(initial_difficulty, irs_len)
    /\ current_sentence' = 0
    /\ ad_frame' = "test"
    /\ UNCHANGED <<set_sizes, set_id, irs_len, initial_difficulty, ad_last_idx, ad_choice,
                   ad_state, played_now, selected_now>>
    /\ UNCHANGED convVars
    /\ UNCHANGED calVars
    /\ UNCHANGED fnVars
    /\ UNCHANGED batchVars
    /\ UNCHANGED cfgVars
    /\ UNCHANGED combVars
    /\ UNCHANGED abxVars

\* Adaptive.play: the impulse response at iloc[difficulty] is read, then
\* gui.play_click plays the sentence of row progress and enables the
\* segmented button and Next; a read or a playback that raises ends the
\* callback with nothing enabled
Play ==
    /\ ad_frame = "test"
    /\ \E sound_ok \in BOOLEAN :
           IF /\ ~iloc_raises(difficulty, irs_len)
              /\ ad_progress + 1 \in DOMAIN current_set
              /\ sound_ok
           THEN /\ ad_state' = [w \in DOMAIN ad_state |-> NORMAL]
                /\ played_now' = TRUE
           ELSE UNCHANGED <<ad_state, played_now>>
    /\ UNCHANGED <<set_sizes, set_id, irs_len, initial_difficulty, difficulty, ad_last_idx,
                   current_set, ad_progress, ad_choice, current_sentence, ad_frame,
                   selected_now>>
    /\ UNCHANGED convVars
    /\ UNCHANGED calVars
    /\ UNCHANGED fnVars
    /\ UNCHANGED batchVars
    /\ UNCHANGED cfgVars
    /\ UNCHANGED combVars
    /\ UNCHANGED abxVars

\* a click on Wrong or Correct of the segmented button
Select(value) ==
    /\ ad_frame = "test"
    /\ ad_state["segmented_button"] = NORMAL
    /\ ad_choice' = value
    /\ selected_now' = TRUE
    /\ UNCHANGED <<set_sizes, set_id, irs_len, initial_difficulty, difficulty, ad_last_idx,
                   current_set, ad_progress, current_sentence, ad_state, ad_frame,
                   played_now>>
    /\ UNCHANGED convVars
    /\ UNCHANGED calVars
    /\ UNCHANGED fnVars
    /\ UNCHANGED batchVars
    /\ UNCHANGED cfgVars
    /\ UNCHANGED combVars
    /\ UNCHANGED abxVars

SelectWrong == Select("Wrong")

SelectCorrect == Select("Correct")

\* Adaptive.move_to_next, lines 223-251
MoveToNext ==
    /\ ad_frame = "test"
    /\ ad_state["button_next"] = NORMAL
    /\ LET row == ad_progress
           advance == ad_choice = "Correct" \/ ad_progress # 0
       IN  /\ current_set' =
                  [current_set EXCEPT ![row + 1] =
                      [answer |-> recorded_answer(ad_choice, row),
                       ir_id |-> iloc_position(difficulty, irs_len)]]
           /\ difficulty' = IF ad_choice = "Correct" THEN difficulty + 1 ELSE difficulty - 1
           /\ ad_progress' = IF advance THEN ad_progress + 1 ELSE ad_progress
           /\ ad_state' = AdWidgetsDisabled
           /\ IF ad_progress' > ad_last_idx
              THEN /\ ad_frame' = "intermediate"
                   /\ UNCHANGED current_sentence
              ELSE /\ ad_frame' = "test"
                   \* line 251 raises IndexError past the end of current_set
                   /\ current_sentence' = IF ad_progress' + 1 \in DOMAIN current_set
                                          THEN ad_progress' ELSE current_sentence
    /\ played_now' = FALSE
    /\ selected_now' = FALSE
    /\ UNCHANGED <<set_sizes, set_id, irs_len, initial_difficulty, ad_last_idx, ad_choice>>
    /\ UNCHANGED convVars
    /\ UNCHANGED calVars
    /\ UNCHANGED fnVars
    /\ UNCHANGED batchVars
    /\ UNCHANGED cfgVars
    /\ UNCHANGED combVars
    /\ UNCHANGED abxVars

AdNext == StartTest \/ Play \/ SelectWrong \/ SelectCorrect \/ MoveToNext

SpecAdaptive == AdInit /\ [][AdNext]_vars

\* ======================================================= claims: convolution
Returned == calls >= 1 /\ ret.status = "ok"

Out == ret.audio.samples        \* the channels of the returned buffer

\* C1: a successful convolution of an impulse response of M frames with a
\* stimulus of N frames returns M + N - 1 frames in every channel, also when
\* M > N (M is counted after resampling when the rates differ).
C1_LengthLaw ==
    Returned =>
        LET M == IF fs_in1 = fs_in2 THEN Frames(in1) ELSE new_len(in1, fs_in2, fs_in1)
        IN  \A c \in DOMAIN Out : Len(Out[c]) = M + Frames(in2) - 1

C1_Witness ==
    /\ Returned /\ fs_in1 = fs_in2
    /\ Frames(in1) = 3 /\ Frames(in2) = 1
    /\ Len(Out[1]) = 3

\* sum of ir[i] * stim[j] over the index pairs with i + j = n + 1
RECURSIVE SumPairs(_, _, _)
SumPairs(ir, stim, pairs) ==
    IF pairs = {} THEN 0
    ELSE LET p == CHOOSE q \in pairs : TRUE
         IN  ir[p[1]] * stim[p[2]] + SumPairs(ir, stim, pairs \ {p})

LinearConvolution(ir, stim, idx) ==
    SumPairs(ir, stim, {q \in (1..Len(ir)) \X (1..Len(stim)) : q[1] + q[2] = idx + 1})

IsScenario ==
    /\ in1 = <<ScenarioIR>> /\ in2 = <<ScenarioStim>>
    /\ fs_in1 = 48000 /\ fs_in2 = 48000
    /\ ~opts.fade_out /\ opts.normalization = "None"

C3_ChannelsOfInput ==
    (Returned /\ Channels(in1) = 1) => Channels(Out) = Channels(in2)

\* C3 amended: the returned buffer always has exactly two channels, the
\* first and the last row of the two-dimensional convolution: mono with mono
\* gives two equal channels, a mono impulse response with a stereo stimulus
\* gives the two channels of the stimulus, each convolved with the response.
C3_AlwaysTwoChannels ==
    Returned =>
        /\ Channels(Out) = 2
        /\ (Channels(in1) = 1 /\ Channels(in2) = 1) => Out[1] = Out[2]
        /\ (Channels(in1) = 1 /\ Channels(in2) = 2 /\ fs_in1 = fs_in2 /\ ~opts.fade_out) =>
              \A c \in 1..2 : \A k \in DOMAIN Out[c] :
                  Out[c][k] = LinearConvolution(in1[1], in2[c], k)

C3_Witness ==
    Returned /\ Channels(in1) = 1 /\ Channels(in2) = 1 /\ Channels(Out) = 2

\* C9: a convolution call leaves the caller's impulse response and stimulus
\* as they were, so a second call with the same arguments (fade_out enabled,
\* equal rates) returns what the first returned.
C9_InputsUntouched ==
    [][/\ in1' = in1
       /\ in2' = in2
       /\ (calls = 1 /\ opts.fade_out /\ fs_in1 = fs_in2) => ret' = ret]_vars

C11_UnknownPrefilterFails ==
    (calls >= 1 /\ opts.normalization_prefilter \notin ({""} \cup FILTERS)) =>
        (ret.status # "ok" /\ ret.audio = NoAudio)

\* C12: an impulse response and a stimulus whose channel counts differ and
\* are not covered by the mono broadcast (such as three channels against
\* two) make the call fail instead of returning a buffer.
C12_ChannelMismatchFails ==
    (calls >= 1 /\ Channels(in1) # Channels(in2) /\ Channels(in1) # 1 /\ Channels(in2) # 1) =>
        (ret.status # "ok" /\ ret.audio = NoAudio)

\* C13: with fade_out enabled, an impulse response with fewer frames than
\* the taper window is tapered over the frames it has and the call raises
\* no error.
C13_ShortResponseTapered ==
    (calls >= 1 /\ opts.fade_out /\ fs_in1 = fs_in2 /\ Frames(in1) < fade_size(fs_in2)
        /\ opts.normalization \in KnownModes)
    => ret.status = "ok"

\* C14: when the rates differ only the impulse response is resampled: the
\* stimulus is left as it is and enters the convolution with its samples and
\* frame count, and the rate returned is the stimulus rate in every case.
C14_OnlyResponseResampled ==
    [][/\ in2' = in2
       /\ ret'.status = "ok" =>
            /\ ret'.fs = fs_in2
            /\ fs_in1 # fs_in2 =>
                 /\ in1' = in1
                 /\ Frames(ret'.audio.samples) =
                        (Frames(in1) * fs_in2) \div fs_in1 + Frames(in2) - 1
                 /\ (~opts.fade_out /\ Channels(in1) = 1 /\ Channels(in2) = 1) =>
                       \A k \in DOMAIN ret'.audio.samples[1] :
                           ret'.audio.samples[1][k] =
                               LinearConvolution(resample(in1, Frames(ret'.audio.samples)
                                                               - Frames(in2) + 1)[1],
                                                 in2[1], k)]_vars

C14_Witness ==
    /\ Returned /\ fs_in1 = 50 /\ fs_in2 = 38 /\ ret.fs = 38
    /\ Frames(in1) = 3 /\ Frames(Out) = Frames(in2) + 1

\* the convolution result before normalization, where the model can state it
\* without the engine: mono response, equal rates, no taper
PlainCase ==
    /\ Returned /\ fs_in1 = fs_in2 /\ ~opts.fade_out /\ Channels(in1) = 1

IsPlainResult(samples) ==
    /\ Channels(samples) = 2
    /\ \A c \in 1..2 :
         /\ Len(samples[c]) = Frames(in1) + Frames(in2) - 1
         /\ \A k \in DOMAIN samples[c] :
              samples[c][k] = LinearConvolution(in1[1], in2[IF Channels(in2) = 1 THEN 1 ELSE c], k)

\* the stand-in of the prefilter, stated on one channel
Filtered(kind, ch) ==
    [i \in 1..Len(ch) |->
        IF kind = "hp" THEN ch[i] - (IF i = 1 THEN 0 ELSE ch[i - 1])
        ELSE ch[i] + (IF i = 1 THEN 0 ELSE ch[i - 1])]

\* C18: with a highpass or lowpass prefilter the samples returned are those
\* of the unfiltered convolution result under one scalar factor; the
\* filtered copy only enters the measurement of that factor.
C18_PrefilterOnlyMeasures ==
    (PlainCase /\ opts.normalization_prefilter \in FILTERS) =>
        /\ IsPlainResult(Out)
        /\ opts.normalization = "peak" =>
              ret.audio.factor.meas =
                  <<AbsMax([c \in 1..2 |-> Filtered(opts.normalization_prefilter, Out[c])]), 1>>
        /\ opts.normalization \in {"rms", "lufs"} =>
              ret.audio.factor.meas[1] =
                  SqSum([c \in 1..2 |-> Filtered(opts.normalization_prefilter, Out[c])])

C18_Witness ==
    /\ PlainCase /\ opts.normalization_prefilter = "hp" /\ opts.normalization = "peak"
    /\ IsPlainResult(Out)
    /\ ret.audio.factor.meas # <<AbsMax(Out), 1>>

\* C19: the result carries the factor of exactly the strategy that
\* normalization names, measured as that strategy measures, on the
\* convolution result; with no normalization the result is unscaled.
C19_OneStrategyByMode ==
    (Returned /\ opts.normalization \in KnownModes) =>
        LET f == ret.audio.factor
            m == opts.normalization
        IN  /\ m = "None" => f = One
            /\ m # "None" => (f.kind = m /\ f.db = opts.normalization_target)
            /\ PlainCase => IsPlainResult(Out)
            /\ (PlainCase /\ opts.normalization_prefilter = "") =>
                 /\ m = "peak" => f.meas = <<AbsMax(Out), 1>>
                 /\ m = "rms" => f.meas = <<SqSum(Out), 2 * Frames(Out)>>
                 /\ m = "lufs" => f.meas = <<SqSum(Out), Frames(Out), fs_in2>>
                 /\ m = "ir_sum" => f.meas = <<AbsSum(in1), 1>>

C19_Witness ==
    /\ PlainCase /\ opts.normalization = "rms" /\ ret.audio.factor.kind = "rms"
    /\ ret.audio.factor.meas[1] # AbsMax(Out)

\* ====================================================== claims: direct calls
Matched == fn_call = "match_fs" /\ fn_out.status = "ok"

AllZero(buf) == \A c \in DOMAIN buf : \A i \in DOMAIN buf[c] : buf[c][i] = 0

\* C15: match_fs called with the rate to match equal to the rate of the
\* input returns the input unchanged, bit for bit and with its channels.
C15_EqualRatesBitForBit ==
    (fn_call = "match_fs" /\ fn_fs2 = fn_fs) =>
        /\ fn_out.status = "ok"
        /\ fn_out.audio = fn_in
        /\ AllZero(fn_out.ulp)

\* C15 (as the code has it): match_fs called with equal rates still resamples;
\* it returns a new array of the same frame count, channels and rate whose
\* samples are the input's up to the rounding of the FFT round trip.
C15_EqualRatesUpToRounding ==
    (fn_call = "match_fs" /\ fn_fs2 = fn_fs) =>
        /\ fn_out.status = "ok"
        /\ fn_out.fs = fn_fs
        /\ Channels(fn_out.audio) = Channels(fn_in)
        /\ Frames(fn_out.audio) = Frames(fn_in)
        /\ fn_out.audio = fn_in
        /\ \A c \in DOMAIN fn_out.ulp : \A i \in DOMAIN fn_out.ulp[c] :
               Abs(fn_out.ulp[c][i]) <= 1

C15_Witness ==
    /\ Matched /\ fn_fs2 = fn_fs /\ Channels(fn_in) = 2
    /\ fn_out.audio = fn_in /\ ~AllZero(fn_out.ulp)

\* round(p/q) for p >= 0, q > 0, halves to the even neighbour
Rounded(p, q) ==
    LET lo == p \div q
        twice == 2 * (p - lo * q)
    IN  IF twice > q \/ (twice = q /\ lo % 2 = 1) THEN lo + 1 ELSE lo

\* C16: when match_fs resamples, the array it returns has
\* round(frames * target rate / source rate) frames.
C16_RoundedLength ==
    (Matched /\ fn_fs2 > 0 /\ fn_fs2 # fn_fs) =>
        Frames(fn_out.audio) = Rounded(Frames(fn_in) * fn_fs2, fn_fs)

\* C16 (as the code has it): the array returned has the integer part of
\* frames * target rate / source rate frames, every channel alike, and
\* the call raises when that is zero.
C16_TruncatedLength ==
    (fn_call = "match_fs" /\ fn_fs2 > 0) =>
        /\ fn_out.status = "ok" <=> Frames(fn_in) * fn_fs2 >= fn_fs
        /\ fn_out.status = "ok" =>
              /\ Frames(fn_out.audio) * fn_fs <= Frames(fn_in) * fn_fs2
              /\ Frames(fn_in) * fn_fs2 < (Frames(fn_out.audio) + 1) * fn_fs
              /\ \A c \in DOMAIN fn_out.audio :
                     Len(fn_out.audio[c]) = Frames(fn_out.audio)

C16_Witness ==
    /\ Matched /\ fn_fs = 38 /\ fn_fs2 = 50 /\ Frames(fn_in) = 2
    /\ Frames(fn_out.audio) = 2
    /\ Rounded(Frames(fn_in) * fn_fs2, fn_fs) = 3

C22_UpDownAppliesStep ==
    fn_call = "up_down" =>
        /\ fn_out.audio.samples = fn_in
        /\ fn_out.audio.gain_db =
               (IF fn_direction THEN fn_last + fn_step ELSE fn_last - fn_step)

Peaked == fn_call = "peak_normalize" /\ fn_out.status = "ok"

\* C20: peak_normalize multiplies the whole buffer by
\* 10^(peak/20) / max|audio|, so the largest magnitude of the result is
\* 10^(peak/20); audio [0.5, -0.25, 0.1] with peak 0 gets the factor 2.0 and
\* comes back as [1.0, -0.5, 0.2].
C20_PeakNormalization ==
    Peaked =>
        LET f == fn_out.audio.factor
            y == fn_out.audio.samples
        IN  /\ y = fn_in
            /\ f.kind = "peak" /\ f.db = fn_peak
            /\ f.meas = <<AbsMax(fn_in), 1>>
            /\ AbsMax(y) * f.meas[2] = f.meas[1]
            /\ fn_out.fs = fn_fs
            /\ (fn_in = <<ExampleAudio>> /\ fn_peak = 0) =>
                  /\ FnUnit * f.meas[2] = 2 * f.meas[1]
                  /\ y[1][1] * f.meas[2] * 1 = 1 * f.meas[1]
                  /\ y[1][2] * f.meas[2] * 2 = -1 * f.meas[1]
                  /\ y[1][3] * f.meas[2] * 5 = 1 * f.meas[1]

C20_Witness ==
    /\ Peaked /\ fn_in = <<ExampleAudio>> /\ fn_peak = 0
    /\ fn_out.audio.factor.meas = <<FnUnit \div 2, 1>>

\* ============================================================ claims: batch
\* what convolution returns for variant v without normalization, in the cases
\* the engine can be left out of the statement: mono response at the rate of
\* the stimulus, tapered in place, so that irs[v] is the response convolved
IsRawResultOf(samples, v) ==
    /\ Channels(samples) = 2
    /\ \A c \in 1..2 :
         /\ Len(samples[c]) = Frames(irs[v]) + Frames(stimuli) - 1
         /\ \A k \in DOMAIN samples[c] :
              samples[c][k] =
                  LinearConvolution(irs[v][1],
                                    stimuli[IF Channels(stimuli) = 1 THEN 1 ELSE c], k)

\* C21: the factor is derived once, from the convolution result of the
\* first variant, and every file written is the unnormalized convolution
\* result of its variant under that one factor, so the level ratios between
\* the files are those of the unnormalized results.
C21_OneFactorForAllVariants ==
    batch_pc \in {"loop", "done"} =>
        /\ factor # NaN =>
             /\ factor.kind = "peak" /\ factor.db = peak_lvl
             /\ (Len(written) = 0 /\ fs_irs[1] = fs_stimuli /\ Channels(irs[1]) = 1) =>
                   \E first \in {[c \in 1..2 |->
                                   [k \in 1..(Frames(irs[1]) + Frames(stimuli) - 1) |->
                                       LinearConvolution(irs[1][1],
                                           stimuli[IF Channels(stimuli) = 1 THEN 1 ELSE c], k)]]} :
                       factor.meas = <<AbsMax(first), 1>>
        /\ \A v \in 1..Len(written) :
             /\ written[v].audio.factor = factor
             /\ written[v].fs = fs_stimuli
             /\ (fs_irs[v] = fs_stimuli /\ Channels(irs[v]) = 1) =>
                   IsRawResultOf(written[v].audio.samples, v)

C21_Witness ==
    /\ batch_pc = "done" /\ Len(written) = 2 /\ factor.kind = "peak"
    /\ written[1].audio.factor = written[2].audio.factor
    /\ AbsMax(written[1].audio.samples) # AbsMax(written[2].audio.samples)
    /\ IsRawResultOf(written[2].audio.samples, 2)

\* =========================================================== claims: config
\* C23: person_identifiers raises IOError, and returns no dictionary, when
\* reading the configuration goes wrong: the file is missing or unreadable
\* or has no Identifiers section.
C23_PersonIdentifiersRaises ==
    (cfg_call = "person_identifiers" /\ ~identifiers_readable(cfg_file)) =>
        (cfg_ret.status = "IOError" /\ cfg_ret.dict = NoDict)

\* ===================================================== claims: combinations
RowsOf(frame) == UNION {frame[g] : g \in DOMAIN frame}

\* C24: with constant_reference=True the reference path (column Ref) is
\* the same in all the combinations returned.
C24_ConstantReference ==
    (audio_path_comb # NoFrame /\ constant_reference) =>
        \A r1, r2 \in RowsOf(audio_path_comb) : r1.Ref = r2.Ref

\* ======================================================= claims: ABX window
PlayedInTrial(column) == <<progress, column>> \in played

\* C26: in every trial Next is enabled only after A, B and the reference
\* were each played in that trial and a choice is selected; B is enabled
\* only after A was played, Reference only after B, the choices only after
\* Reference.
C26_NextOnlyAfterAllPlayed ==
    /\ widget_state["button_next"] = NORMAL =>
          /\ PlayedInTrial("0") /\ PlayedInTrial("1") /\ PlayedInTrial("Ref")
          /\ choice \in {"0", "1"}
    /\ widget_state["button_b"] = NORMAL => PlayedInTrial("0")
    /\ widget_state["button_ref"] = NORMAL => PlayedInTrial("1")
    /\ \A r \in Radios : widget_state[r] = NORMAL => PlayedInTrial("Ref")

C26_Witness ==
    /\ progress = MaxRows - 1 /\ widget_state["button_next"] = NORMAL
    /\ choice = "1" /\ click_count["button_a"] = MaxClicks

\* C27: each click on Next writes one response (right choice, clicks, time)
\* into the row of the current trial and into no other, that row being
\* empty before; progress moves on by one; the buttons are as at the start
\* and the click counts zero; the window is closed exactly when the row was
\* the last one.
C27_NextRecordsCurrentRow ==
    [][(progress' # progress \/ combinations' # combinations \/ destroyed' # destroyed) =>
          /\ progress' = progress + 1
          /\ progress + 1 \in DOMAIN combinations
          /\ DOMAIN combinations' = DOMAIN combinations
          /\ combinations[progress + 1].response = NoResponse
          /\ combinations'[progress + 1].response =
                [right_choice |-> IF (choice = "0") <=> (combinations[progress + 1].c0
                                                          = combinations[progress + 1].Ref)
                                  THEN 1 ELSE 0,
                 clicks |-> click_count["button_a"] + click_count["button_b"]
                                + click_count["button_ref"],
                 time |-> (now + 1) - button_time["button_a"]]
          /\ \A r \in DOMAIN combinations :
                r # progress + 1 => combinations'[r] = combinations[r]
          /\ widget_state' = InitialStates
          /\ click_count' = [b \in PlayButtons |-> 0]
          /\ destroyed' <=> (progress + 1 = Len(combinations))
          /\ ~destroyed]_vars

C27_Witness ==
    /\ destroyed /\ Len(combinations) = MaxRows /\ progress = MaxRows
    /\ \A r \in DOMAIN combinations : combinations[r].response # NoResponse
    /\ combinations[1].response.right_choice # combinations[MaxRows].response.right_choice

\* ================================================== claims: adaptive window
\* a step of the test frame that is a click on Next
IsMoveToNext ==
    /\ ad_frame = "test"
    /\ ad_state["button_next"] = NORMAL
    /\ ad_state'["button_next"] = DISABLED

\* C28: each click on Next applies the staircase rule: Correct raises the
\* difficulty by one and advances; Wrong on any sentence but the first
\* lowers it by one and advances; Wrong on the first sentence lowers it by
\* one and repeats the sentence; the set ends exactly when progress passes
\* the last sentence of the set.
C28_StaircaseRule ==
    [][IsMoveToNext =>
          /\ ad_choice = "Correct" =>
                (difficulty' = difficulty + 1 /\ ad_progress' = ad_progress + 1)
          /\ (ad_choice = "Wrong" /\ ad_progress # 0) =>
                (difficulty' = difficulty - 1 /\ ad_progress' = ad_progress + 1)
          /\ (ad_choice = "Wrong" /\ ad_progress = 0) =>
                (difficulty' = difficulty - 1 /\ ad_progress' = ad_progress)
          /\ (ad_frame' = "intermediate") <=> (ad_progress' >= Len(current_set))]_vars

\* C29: from the default initial difficulty, the difficulty index with which
\* Play selects the impulse response stays within 0..len(irs)-1.
C29_DifficultyInRange ==
    (ad_frame = "test" /\ initial_difficulty = -1) => difficulty \in 0..(irs_len - 1)

\* C30: Next records a response only after the sentence was played and
\* Wrong or Correct was selected for it; the answer recorded is never empty
\* and never the one left from the sentence before.
C30_AnswerGivenForSentence ==
    [][IsMoveToNext =>
          /\ played_now
          /\ selected_now
          /\ ad_choice \in {"Wrong", "Correct"}
          /\ current_set'[ad_progress + 1].answer # ""]_vars

\* ===================================================== claims: calibration
\* C4: the loop performs at most a fixed number of correction iterations
\* (SafetyBound), whatever the oracle answers.
C4_IterationsBounded == n <= SafetyBound

LogLinear == oracle.num > 0         \* k*log(ratio) + c with k > 0

\* C5 as stated: with an oracle k*log(ratio) + c, for any k > 0, the loop
\* is within 0.1 phon of the target after a bounded number of iterations.
C5_ConvergesForEveryK ==
    (LogLinear /\ pc = "while" /\ n >= SafetyBound) => Abs(loud_diff) <= Tolerance

\* the first difference measured by the call
FirstDiff == IF n = 0 THEN loud_diff ELSE diffs[1]

\* least m >= from with |d| <= 0.1 * 2^m
RECURSIVE Halvings(_, _)
Halvings(d, from) ==
    IF Abs(d) <= Tolerance * Pow(2, from) THEN from ELSE Halvings(d, from + 1)

\* C5 amended: with an oracle of slope s = k/20 phon per dB of gain
\* (k*log10(ratio) + c) the difference after i iterations is
\* (1 - s)^i times the first one, so for 0 < s < 2 (0 < k < 40) the loop is
\* within 0.1 phon after at most log(|first difference| / 0.1) / log(1/|1-s|)
\* iterations, rounded up; for s >= 2 it never gets there.
C5_ConvergesBelowSlopeTwo ==
    (pc # "idle" /\ oracle.num \in 1..3) =>
        /\ Exact(oracle, scale(audio_pressure, ratio_loud))
        /\ loud_diff * Pow(2, n) = FirstDiff * Pow(2 - oracle.num, n)
        /\ n <= (IF oracle.num = 2 THEN 1 ELSE Halvings(FirstDiff, 0))
        /\ (pc = "while" /\ Abs(loud_diff) > Tolerance) =>
              n < (IF oracle.num = 2 THEN 1 ELSE Halvings(FirstDiff, 0))

C5_Witness ==
    /\ pc = "while" /\ oracle.num = 3 /\ n >= 5 /\ Abs(loud_diff) <= Tolerance

\* C6: on a successful return the loudness measured last was measured on
\* pressure * ratio and is within 0.1 phon of the target, and the ratio is
\* the product of the factors 10^(diff/20) of the iterations performed (1
\* with no iteration).
C6_ConvergedRatio ==
    pc = "returned" =>
        /\ 10 * Abs(target_phon - loud_lvl) <= PhonUnit
        /\ loud_lvl = oracle.c + (oracle.num * (peak_db(audio0) + dbfs_db + ratio_loud)) \div oracle.den
        /\ Len(diffs) = n
        /\ ratio_loud = SumSeq(diffs)
        /\ (n = 0 => ratio_loud = 0)
        /\ (return_ratio => result.has_ratio /\ result.ratio = ratio_loud)

C6_Witness ==
    pc = "returned" /\ n >= 3 /\ result.has_ratio /\ result.ratio = SumSeq(diffs) /\ result.ratio # 0

\* the peak of the caller's samples at the converged level, in dB re full scale
ScaledPeak == peak_db(audio0) + ratio_loud

\* C7: the call fails with the clipping error exactly when the peak of the
\* scaled audio exceeds 1.0 (0 dBFS); a peak of exactly 1.0 succeeds; the
\* headroom reported with the error is negative; the signal is left at the
\* requested level, not attenuated.
C7_ClippingError ==
    pc \in {"returned", "raised"} =>
        /\ (pc = "raised") <=> (ScaledPeak > 0)
        /\ (pc = "raised") <=> (result.status = "ValueError")
        /\ pc = "raised" => (result.headroom_db = -ScaledPeak /\ result.headroom_db < 0)
        /\ pc = "returned" => result.status = "ok"
        /\ peak_db(audio) = ScaledPeak

C7_Witness ==
    pc = "raised" /\ result.status = "ValueError" /\ result.headroom_db < 0 /\ ScaledPeak > 0

\* C8: the buffer returned is the original full-scale input (not the
\* pressure-domain copy) with every sample multiplied by the returned ratio.
C8_ReturnedIsInputTimesRatio ==
    pc = "returned" =>
        /\ Len(result.audio) = Len(audio0)
        /\ \A i \in DOMAIN audio0 :
             /\ result.audio[i].sgn = audio0[i].sgn
             /\ audio0[i].sgn # 0 => result.audio[i].db = audio0[i].db + ratio_loud
        /\ return_ratio => \A i \in DOMAIN audio0 :
             audio0[i].sgn # 0 => result.audio[i].db = audio0[i].db + result.ratio

C8_Witness ==
    /\ pc = "returned" /\ return_ratio /\ result.ratio # 0
    /\ result.audio[1].db = audio0[1].db + result.ratio

\* C25: when the call fails with the clipping error, the caller's buffer
\* holds the samples it held before the call.
C25_InputKeptOnClipping ==
    pc = "raised" => audio = audio0

====
